---- MODULE Spec2Model ----
(***************************************************************************)
(* Pulsation-pattern matching of FOAM / pypulse.                           *)
(*                                                                         *)
(* Spec    : one invocation of chisq_longest_sequence                      *)
(*           (src/pypulse/functions_for_gyre.py, lines 425-563), stepped   *)
(*           through its stages: coverage test, matcher, direction,        *)
(*           segmentation loop, selector, aligner, spacing chi-square.     *)
(*                                                                         *)
(* SpecRow : one call of theoretical_pattern_from_dfrow (lines 131-228)    *)
(*           for one model row and one observation table, with the         *)
(*           method chisq_longest_sequence: preparation (split of the      *)
(*           table at its interruption rows), one step per segment, return.*)
(*           Frequencies and the values of the table are exact rationals;  *)
(*           the model's frequencies are 1/n c/d, so that periods = 1/freqs*)
(*           are whole days.                                               *)
(*                                                                         *)
(* SpecScenario, SpecRowMethods, SpecRowErrors : the same steps from other  *)
(*           inputs (the worked example; the three methods with the values *)
(*           to build from; tables with any error in any row).             *)
(*                                                                         *)
(* SpecBayes : pipe5_best_model_errors for one file of merit values, run   *)
(*           up to MaxRuns times.                                          *)
(*                                                                         *)
(* Numbers.  Periods are integers (days); every operation the code does    *)
(* on them (difference, comparison, equality) is exact on such values.     *)
(* Errors and chi-squares are exact rationals [num, den].  The observed    *)
(* errors are strictly positive: with an error of 0 the quotient of line   *)
(* 453 is inf or nan and the code's result depends on nan ordering.        *)
(* Array positions are Python positions (first element at 0).              *)
(***************************************************************************)
EXTENDS Integers, Sequences, FiniteSets, TLC

\* ------------------------------------------------------------------ bounds
MaxT == 3
MaxO == 3
MaxPeriod == 3
MaxRows == 3
MaxModels == 3
MaxMerit == 5
MaxRuns == 2

\* ------------------------------------------------------------- arithmetic
Rat(n, d) == [num |-> n, den |-> d]

RatEq(a, b) == a.num * b.den = b.num * a.den

RatLess(a, b) == a.num * b.den < b.num * a.den

RatAdd(a, b) == Rat(a.num * b.den + b.num * a.den, a.den * b.den)

Abs(x) == IF x < 0 THEN -x ELSE x

\* a[i] of a Python sequence, i >= 0
At(a, i) == a[i + 1]

\* [ x for i in range(n) ]
Repeat(x, n) == [i \in 1..n |-> x]

\* np.where(a == v)[0][0] : first position holding the value v
FirstIndexOf(a, v) == (CHOOSE j \in 1..Len(a) : a[j] = v /\ \A k \in 1..(j - 1) : a[k] # v) - 1

\* ------------------------------------------------------------ input space
Periods == 1..MaxPeriod

ErrSet == {Rat(1, 1), Rat(2, 1)}

OrderStarts == {-MaxT, -1, 1}

\* radial orders n_pg of the columns of one model: constant step +1 or -1
OrderArrays(T) == {[k \in 1..T |-> n0 + d * (k - 1)] : n0 \in OrderStarts, d \in {-1, 1}}

\* ------------------------------------------------------------------ state
VARIABLES tperiods, orders, operiods, operiods_errors,
          pc, pairs_orders, increase_or_decrease,
          sequences, current, ii, lseq, thr_ind_start,
          ordered_theoretical_periods, corresponding_orders, result,
          freqs, parameters, Obs, ObsErr, which_observable, method_build_series,
          highest_amp_puls, Obs_pattern_parts, ObsErr_pattern_parts,
          ouput_pulsations, part, row_pc, list_out,
          merit_table, output_is_file, df, probabilities, total_probability, p_cumulative,
          i_df, output_table, bayes_pc, runs

vars == <<tperiods, orders, operiods, operiods_errors,
          pc, pairs_orders, increase_or_decrease,
          sequences, current, ii, lseq, thr_ind_start,
          ordered_theoretical_periods, corresponding_orders, result,
          freqs, parameters, Obs, ObsErr, which_observable, method_build_series,
          highest_amp_puls, Obs_pattern_parts, ObsErr_pattern_parts,
          ouput_pulsations, part, row_pc, list_out,
          merit_table, output_is_file, df, probabilities, total_probability, p_cumulative,
          i_df, output_table, bayes_pc, runs>>

\* the state of pipe5_best_model_errors for one file of merit values
bayes_vars == <<merit_table, output_is_file, df, probabilities, total_probability,
                p_cumulative, i_df, output_table, bayes_pc, runs>>

\* the state of theoretical_pattern_from_dfrow
row_vars == <<freqs, parameters, Obs, ObsErr, which_observable, method_build_series,
              highest_amp_puls, Obs_pattern_parts, ObsErr_pattern_parts,
              ouput_pulsations, part, row_pc, list_out>>

\* the locals of chisq_longest_sequence
engine_locals == <<pc, pairs_orders, increase_or_decrease, sequences, current, ii, lseq,
                   thr_ind_start, ordered_theoretical_periods, corresponding_orders, result>>

inputs == <<tperiods, orders, operiods, operiods_errors>>

NoResult == [kind |-> "none"]

\* the float literal 1e16 of line 447
Penalty == [mant |-> 1, exp10 |-> 16]

Raise(exc) == [kind |-> "raise", exc |-> exc]

Return(chi2, pers, ords) == [kind |-> "return", series_chi2 |-> chi2,
                             final_theoretical_periods |-> pers,
                             corresponding_orders |-> ords]

PyList(s) == [type |-> "list", data |-> s]

NdArray(s) == [type |-> "ndarray", data |-> s]

\* ---------------------------------------------------------------- matcher
\* ( (period-tperiod)/operiods_errors[ii] )**2
ChiSq(period, tperiod, err) ==
    Rat((period - tperiod) * (period - tperiod) * err.den * err.den, err.num * err.num)

Chisqs(tper, period, err) == [j \in 1..Len(tper) |-> ChiSq(period, tper[j], err)]

\* min( chisqs ) : the builtin keeps the first of equal elements
RECURSIVE MinFrom(_, _, _)
MinFrom(a, k, best) ==
    IF k > Len(a) THEN best
    ELSE MinFrom(a, k + 1, IF RatLess(a[k], best) THEN a[k] ELSE best)

PyMin(a) == MinFrom(a, 2, a[1])

\* np.where( chisqs == min( chisqs ) )[0] , as the set of positions
WhereMin(a) == {j \in 0..(Len(a) - 1) : RatEq(At(a, j), PyMin(a))}

\* the last position instead of the first
LastOf(S) == CHOOSE j \in S : \A k \in S : j >= k

\* min_ind[...][0]
FirstOf(S) == CHOOSE j \in S : \A k \in S : j <= k

MatchOne(tper, ords, period, err) ==
    LET chisqs == Chisqs(tper, period, err)
        min_ind == FirstOf(WhereMin(chisqs))
    IN [oper |-> period, tper |-> At(tper, min_ind),
        order |-> At(ords, min_ind), chisq |-> At(chisqs, min_ind)]

Matcher(tper, ords, oper, errs) ==
    [i \in 1..Len(oper) |-> MatchOne(tper, ords, oper[i], errs[i])]

\* -------------------------------------------------------------- direction
\* lines 475-478; orders[1] does not exist for a spectrum of one period
HasSecondOrder(ords) == Len(ords) >= 2

\* the two directions exchanged
DirectionStepReversed(ords) == IF At(ords, 1) = At(ords, 0) - 1 THEN 1 ELSE -1

DirectionStep(ords) == IF At(ords, 1) = At(ords, 0) - 1 THEN -1 ELSE 1

\* ----------------------------------------------------------- segmentation
\* A run (an element of sequences) is kept as the positions in pairs_orders
\* of its rows, in the order the rows were appended: row r of the run is
\* pairs_orders[run[r]].
Row(pairs, k) == At(pairs, k)

\* abs(sett[2]) == abs(pairs_orders[ii+1][2])+increase_or_decrease
Consecutive(pairs, i, step) == Abs(Row(pairs, i).order) = Abs(Row(pairs, i + 1).order) + step

\* len(pairs_orders[:-1])
LoopLength(pairs) == IF Len(pairs) = 0 THEN 0 ELSE Len(pairs) - 1

\* one iteration of the loop of lines 486-496, on the pair (current, sequences)
SegmentBody(cur, seqs, pairs, i, step) ==
    LET afterTest == IF Consecutive(pairs, i, step)
                     THEN [current |-> Append(cur, i), sequences |-> seqs]
                     ELSE [current |-> <<>>, sequences |-> Append(seqs, Append(cur, i))]
    IN IF i = LoopLength(pairs) - 1
       THEN [current |-> <<>>,
             sequences |-> Append(afterTest.sequences, Append(afterTest.current, i))]
       ELSE afterTest

RECURSIVE SegmentFrom(_, _, _, _, _)
SegmentFrom(cur, seqs, pairs, i, step) ==
    IF i >= LoopLength(pairs) THEN seqs
    ELSE LET nxt == SegmentBody(cur, seqs, pairs, i, step)
         IN SegmentFrom(nxt.current, nxt.sequences, pairs, i + 1, step)

Segmenter(pairs, step) == SegmentFrom(<<>>, <<>>, pairs, 0, step)

\* --------------------------------------------------------------- selector
RECURSIVE RatSum(_, _)
RatSum(a, k) == IF k > Len(a) THEN Rat(0, 1) ELSE RatAdd(a[k], RatSum(a, k + 1))

\* np.sum(sequences[ii][:,-1])/len(sequences[ii])
Score(run, pairs) ==
    LET total == RatSum([r \in 1..Len(run) |-> Row(pairs, run[r]).chisq], 1)
    IN Rat(total.num, total.den * Len(run))

RECURSIVE MaxLenFrom(_, _, _)
MaxLenFrom(seqs, k, best) ==
    IF k > Len(seqs) THEN best
    ELSE MaxLenFrom(seqs, k + 1, IF Len(seqs[k]) > best THEN Len(seqs[k]) ELSE best)

\* np.where(len_list == max(len_list))[0] , ascending positions
RECURSIVE LongestFrom(_, _, _)
LongestFrom(seqs, k, m) ==
    IF k > Len(seqs) THEN <<>>
    ELSE IF Len(seqs[k]) = m THEN <<k - 1>> \o LongestFrom(seqs, k + 1, m)
         ELSE LongestFrom(seqs, k + 1, m)

Longest(seqs) == LongestFrom(seqs, 1, MaxLenFrom(seqs, 1, 0))

\* the last of the equal minimal scores instead of the first
MinScoreIndexLast(scores) == LastOf(WhereMin(scores))

\* np.where(scores == min(scores))[0][0]
MinScoreIndex(scores) == FirstOf(WhereMin(scores))

\* position in sequences of the run of lines 501-508
SelectIndex(seqs, pairs) ==
    LET longest == Longest(seqs)
    IN IF Len(longest) = 1 THEN At(longest, 0)
       ELSE LET scores == [k \in 1..Len(longest) |-> Score(At(seqs, longest[k]), pairs)]
            IN At(longest, MinScoreIndex(scores))

Selector(seqs, pairs) == At(seqs, SelectIndex(seqs, pairs))

\* ---------------------------------------------------------------- aligner
\* the two anchor positions subtracted the wrong way round
ThrIndStartSwapped(tper, oper, run, pairs) ==
    FirstIndexOf(oper, Row(pairs, run[1]).oper) - FirstIndexOf(tper, Row(pairs, run[1]).tper)

\* thr_ordering_ind - obs_ordering_ind of lines 510-516
ThrIndStart(tper, oper, run, pairs) ==
    LET obs_ordering_ind == FirstIndexOf(oper, Row(pairs, run[1]).oper)
        thr_ordering_ind == FirstIndexOf(tper, Row(pairs, run[1]).tper)
    IN thr_ordering_ind - obs_ordering_ind

\* the upper bound tested against the observed length
AlignEntryObservedLength(tper, ords, oper, thr_ind_current) ==
    IF thr_ind_current < 0 THEN [tper |-> -1, ordr |-> -1]
    ELSE IF thr_ind_current >= Len(oper) THEN [tper |-> -1, ordr |-> -1]
    ELSE [tper |-> At(tper, thr_ind_current), ordr |-> At(ords, thr_ind_current)]

\* one iteration of the loop of lines 519-531
AlignEntry(tper, ords, oper, thr_ind_current) ==
    IF thr_ind_current < 0 THEN [tper |-> -1, ordr |-> -1]
    ELSE IF thr_ind_current >= Len(tper) THEN [tper |-> -1, ordr |-> -1]
    ELSE [tper |-> At(tper, thr_ind_current), ordr |-> At(ords, thr_ind_current)]

\* the pattern read one theoretical position too far
AlignerFromOne(tper, ords, oper, start) ==
    [i \in 1..Len(oper) |-> AlignEntry(tper, ords, oper, start + i)]

Aligner(tper, ords, oper, start) ==
    [i \in 1..Len(oper) |-> AlignEntry(tper, ords, oper, start + (i - 1))]

\* ---------------------------------------------------------------- spacing
SecondsPerDay == 86400

\* generate_obs_series: spacings in seconds; an error sqrt(q)*86400 is kept
\* as its radicand q
generate_obs_series(pers, errs) ==
    [spacings |-> [k \in 1..(Len(pers) - 1) |-> Abs(pers[k] - pers[k + 1]) * SecondsPerDay],
     errors   |-> [k \in 1..(Len(pers) - 1) |->
                     RatAdd(Rat(errs[k].num * errs[k].num, errs[k].den * errs[k].den),
                            Rat(errs[k + 1].num * errs[k + 1].num,
                                errs[k + 1].den * errs[k + 1].den))]]

generate_thry_series(pers) ==
    [k \in 1..(Len(pers) - 1) |-> Abs(pers[k] - pers[k + 1]) * SecondsPerDay]

\* the sum divided by the number of periods instead of spacings
SeriesChi2PerPeriod(obs_series, obs_series_errors, thr_series) ==
    LET term(k) == LET d == (obs_series[k] - thr_series[k]) \div SecondsPerDay
                   IN Rat(d * d * obs_series_errors[k].den, obs_series_errors[k].num)
        total == RatSum([k \in 1..Len(obs_series) |-> term(k)], 1)
    IN Rat(total.num, total.den * (Len(obs_series) + 1))

\* np.sum( ( (obs_series-thr_series) /obs_series_errors )**2 ) / len(obs_series)
SeriesChi2(obs_series, obs_series_errors, thr_series) ==
    LET term(k) == LET d == (obs_series[k] - thr_series[k]) \div SecondsPerDay
                   IN Rat(d * d * obs_series_errors[k].den, obs_series_errors[k].num)
        total == RatSum([k \in 1..Len(obs_series) |-> term(k)], 1)
    IN Rat(total.num, total.den * Len(obs_series))

\* ------------------------------------------------- chisq_longest_sequence
\* the placeholders counted over the theoretical periods
InsufficientReturnTheoryLength(tper, oper) ==
    Return(Penalty, PyList(Repeat(-1, Len(tper))), PyList(Repeat(-1, Len(tper))))

\* line 447
InsufficientReturn(tper, oper) ==
    Return(Penalty, PyList(Repeat(-1, Len(oper))), PyList(Repeat(-1, Len(oper))))

AlignedReturn(oper, errs, aligned) ==
    LET final_theoretical_periods == [i \in 1..Len(aligned) |-> aligned[i].tper]
        obs == generate_obs_series(oper, errs)
        thr_series == generate_thry_series(final_theoretical_periods)
    IN Return(SeriesChi2(obs.spacings, obs.errors, thr_series),
              NdArray(final_theoretical_periods),
              PyList([i \in 1..Len(aligned) |-> aligned[i].ordr]))

\* the function as a whole: its return value, or the exception it ends with
chisq_longest_sequence(tper, ords, oper, errs) ==
    IF Len(tper) < Len(oper) THEN InsufficientReturn(tper, oper)
    ELSE IF Len(errs) < Len(oper) THEN Raise("IndexError")
    ELSE LET pairs == Matcher(tper, ords, oper, errs)
         IN IF ~HasSecondOrder(ords) THEN Raise("IndexError")
            ELSE LET seqs == Segmenter(pairs, DirectionStep(ords))
                 IN IF seqs = <<>> THEN Raise("ValueError")
                    ELSE LET run == Selector(seqs, pairs)
                             start == ThrIndStart(tper, oper, run, pairs)
                         IN AlignedReturn(oper, errs, Aligner(tper, ords, oper, start))

\* ------------------------------------------------------------------- Spec
\* no file of merit values is being processed
BayesNotStarted ==
    /\ merit_table = <<>> /\ output_is_file = FALSE /\ df = <<>>
    /\ probabilities = <<>> /\ total_probability = Rat(0, 1) /\ p_cumulative = Rat(0, 1)
    /\ i_df = 0 /\ output_table = <<>> /\ bayes_pc = "none" /\ runs = 0

Init ==
    /\ tperiods \in UNION {[1..T -> Periods] : T \in 1..MaxT}
    /\ orders \in OrderArrays(Len(tperiods))
    /\ operiods \in UNION {[1..O -> Periods] : O \in 1..MaxO}
    /\ operiods_errors \in [1..Len(operiods) -> ErrSet]
    /\ pc = "entry"
    /\ pairs_orders = <<>>
    /\ increase_or_decrease = 0
    /\ sequences = <<>>
    /\ current = <<>>
    /\ ii = 0
    /\ lseq = <<>>
    /\ thr_ind_start = 0
    /\ ordered_theoretical_periods = <<>>
    /\ corresponding_orders = <<>>
    /\ result = NoResult
    /\ freqs = <<>> /\ parameters = <<>> /\ Obs = <<>> /\ ObsErr = <<>>
    /\ which_observable = "period"
    /\ method_build_series = "chisq_longest_sequence"
    /\ highest_amp_puls = <<>>
    /\ Obs_pattern_parts = <<>> /\ ObsErr_pattern_parts = <<>>
    /\ ouput_pulsations = <<>> /\ part = 0 /\ row_pc = "none" /\ list_out = <<>>
    /\ BayesNotStarted

\* lines 446-447
InsufficientTheory ==
    /\ pc = "entry"
    /\ Len(tperiods) < Len(operiods)
    /\ result' = InsufficientReturn(tperiods, operiods)
    /\ pc' = "returned"
    /\ UNCHANGED <<bayes_vars, row_vars, inputs, pairs_orders, increase_or_decrease, sequences, current, ii,
                   lseq, thr_ind_start, ordered_theoretical_periods, corresponding_orders>>

\* lines 450-463; operiods_errors[ii] is read for every observed period
Match ==
    /\ pc = "entry"
    /\ ~(Len(tperiods) < Len(operiods))
    /\ IF Len(operiods_errors) < Len(operiods)
       THEN /\ pairs_orders' = pairs_orders
            /\ pc' = "raised"
            /\ result' = Raise("IndexError")
       ELSE /\ pairs_orders' = Matcher(tperiods, orders, operiods, operiods_errors)
            /\ pc' = "direction"
            /\ result' = result
    /\ UNCHANGED <<bayes_vars, row_vars, inputs, increase_or_decrease, sequences, current, ii, lseq,
                   thr_ind_start, ordered_theoretical_periods, corresponding_orders>>

\* lines 475-485
Direction ==
    /\ pc = "direction"
    /\ IF HasSecondOrder(orders)
       THEN /\ increase_or_decrease' = DirectionStep(orders)
            /\ pc' = "segment"
            /\ result' = result
       ELSE /\ increase_or_decrease' = increase_or_decrease
            /\ pc' = "raised"
            /\ result' = Raise("IndexError")
    /\ sequences' = <<>>
    /\ current' = <<>>
    /\ ii' = 0
    /\ UNCHANGED <<bayes_vars, row_vars, inputs, pairs_orders, lseq, thr_ind_start,
                   ordered_theoretical_periods, corresponding_orders>>

\* one iteration of lines 486-496
SegmentStep ==
    /\ pc = "segment"
    /\ ii < LoopLength(pairs_orders)
    /\ LET nxt == SegmentBody(current, sequences, pairs_orders, ii, increase_or_decrease)
       IN /\ current' = nxt.current
          /\ sequences' = nxt.sequences
    /\ ii' = ii + 1
    /\ UNCHANGED <<bayes_vars, row_vars, inputs, pc, pairs_orders, increase_or_decrease, lseq, thr_ind_start,
                   ordered_theoretical_periods, corresponding_orders, result>>

\* lines 497-508; max() of an empty len_list raises
Select ==
    /\ pc = "segment"
    /\ ~(ii < LoopLength(pairs_orders))
    /\ IF sequences = <<>>
       THEN /\ pc' = "raised"
            /\ result' = Raise("ValueError")
            /\ lseq' = lseq
       ELSE /\ pc' = "align"
            /\ result' = result
            /\ lseq' = Selector(sequences, pairs_orders)
    /\ UNCHANGED <<bayes_vars, row_vars, inputs, pairs_orders, increase_or_decrease, sequences, current, ii,
                   thr_ind_start, ordered_theoretical_periods, corresponding_orders>>

\* lines 510-534
Align ==
    /\ pc = "align"
    /\ thr_ind_start' = ThrIndStart(tperiods, operiods, lseq, pairs_orders)
    /\ LET aligned == Aligner(tperiods, orders, operiods, thr_ind_start')
       IN /\ ordered_theoretical_periods' = [i \in 1..Len(aligned) |-> aligned[i].tper]
          /\ corresponding_orders' = [i \in 1..Len(aligned) |-> aligned[i].ordr]
    /\ pc' = "series"
    /\ UNCHANGED <<bayes_vars, row_vars, inputs, pairs_orders, increase_or_decrease, sequences, current, ii,
                   lseq, result>>

\* lines 536-563
Series ==
    /\ pc = "series"
    /\ LET obs == generate_obs_series(operiods, operiods_errors)
           thr_series == generate_thry_series(ordered_theoretical_periods)
       IN result' = Return(SeriesChi2(obs.spacings, obs.errors, thr_series),
                           NdArray(ordered_theoretical_periods),
                           PyList(corresponding_orders))
    /\ pc' = "returned"
    /\ UNCHANGED <<bayes_vars, row_vars, inputs, pairs_orders, increase_or_decrease, sequences, current, ii,
                   lseq, thr_ind_start, ordered_theoretical_periods, corresponding_orders>>

Next ==
    \/ InsufficientTheory
    \/ Match
    \/ Direction
    \/ SegmentStep
    \/ Select
    \/ Align
    \/ Series

Spec == Init /\ [][Next]_vars

\* the stepped function ends with the value of the function taken as a whole
Terminated == pc \in {"returned", "raised"}

StepsAgreeWithFunction ==
    Terminated => result = chisq_longest_sequence(tperiods, orders, operiods, operiods_errors)

\* ------------------------------------------------------------- scenario A
\* The worked example of the engine, with its periods and errors counted in
\* units of 0.01 d (1.05 d is 105).  In binary floating point 1.05 - 1.0 and
\* 1.1 - 1.05 are the same number, as they are here.
ScenarioTheory == <<100, 110, 120, 130, 140>>

ScenarioOrders == <<-5, -4, -3, -2, -1>>

ScenarioObserved == <<105, 122>>

ScenarioErrors == <<Rat(1, 1), Rat(1, 1)>>

\* observed periods of the calls made around the example
ScenarioGrid == {100, 105, 110, 120, 122, 130}

\* the example and its neighbours: a leading part of the spectrum, one or two
\* observed periods of the grid
InitScenario ==
    /\ \E T \in 1..Len(ScenarioTheory) :
          /\ tperiods = SubSeq(ScenarioTheory, 1, T)
          /\ orders = SubSeq(ScenarioOrders, 1, T)
    /\ operiods \in UNION {[1..O -> ScenarioGrid] : O \in 1..Len(ScenarioObserved)}
    /\ operiods_errors = SubSeq(ScenarioErrors, 1, Len(operiods))
    /\ pc = "entry"
    /\ pairs_orders = <<>>
    /\ increase_or_decrease = 0
    /\ sequences = <<>>
    /\ current = <<>>
    /\ ii = 0
    /\ lseq = <<>>
    /\ thr_ind_start = 0
    /\ ordered_theoretical_periods = <<>>
    /\ corresponding_orders = <<>>
    /\ result = NoResult
    /\ freqs = <<>> /\ parameters = <<>> /\ Obs = <<>> /\ ObsErr = <<>>
    /\ which_observable = "period"
    /\ method_build_series = "chisq_longest_sequence"
    /\ highest_amp_puls = <<>>
    /\ Obs_pattern_parts = <<>> /\ ObsErr_pattern_parts = <<>>
    /\ ouput_pulsations = <<>> /\ part = 0 /\ row_pc = "none" /\ list_out = <<>>
    /\ BayesNotStarted

SpecScenario == InitScenario /\ [][Next]_vars

\* ========================================= theoretical_pattern_from_dfrow
\* the values 0 (interruption), -1 (no counterpart) and None
Zero == Rat(0, 1)

MinusOne == Rat(-1, 1)

None == [none |-> TRUE]

FromInt(n) == Rat(n, 1)

\* the whole number a rational stands for
ToInt(r) == r.num \div r.den

\* 1/x
RatInv(x) == IF x.num < 0 THEN Rat(-x.den, -x.num) ELSE Rat(x.den, x.num)

\* x/y**2
RatDivSquare(x, y) == Rat(x.num * y.den * y.den, x.den * y.num * y.num)

\* np.where(a==0)[0] , ascending
RECURSIVE WhereZero(_, _)
WhereZero(a, k) ==
    IF k > Len(a) THEN <<>>
    ELSE IF RatEq(a[k], Zero) THEN <<k - 1>> \o WhereZero(a, k + 1)
         ELSE WhereZero(a, k + 1)

\* a[a!=0]
RECURSIVE NonZero(_, _)
NonZero(a, k) ==
    IF k > Len(a) THEN <<>>
    ELSE IF RatEq(a[k], Zero) THEN NonZero(a, k + 1)
         ELSE <<a[k]>> \o NonZero(a, k + 1)

\* a[i:j] for 0 <= i, 0 <= j
Slice(a, i, j) ==
    LET lo == IF i > Len(a) THEN Len(a) ELSE i
        hi == IF j > Len(a) THEN Len(a) ELSE j
    IN IF lo >= hi THEN <<>> ELSE [k \in 1..(hi - lo) |-> a[lo + k]]

\* np.split(a, indices)
NpSplit(a, indices) ==
    [k \in 1..(Len(indices) + 1) |->
        Slice(a, IF k = 1 THEN 0 ELSE indices[k - 1],
                 IF k = Len(indices) + 1 THEN Len(a) ELSE indices[k])]

\* a - b, with its sign
RatDiffSigned(a, b) == Rat(a.num * b.den - b.num * a.den, a.den * b.den)

\* abs(a - b)
RatAbsDiff(a, b) == Rat(Abs(a.num * b.den - b.num * a.den), a.den * b.den)

\* max( a ) : the builtin keeps the first of equal elements
RECURSIVE MaxFrom(_, _, _)
MaxFrom(a, k, best) ==
    IF k > Len(a) THEN best
    ELSE MaxFrom(a, k + 1, IF RatLess(best, a[k]) THEN a[k] ELSE best)

PyMax(a) == MaxFrom(a, 2, a[1])

\* np.where(a == v)[0] , as the set of positions; nothing equals None
WhereEqual(a, v) ==
    IF v = None THEN {} ELSE {j \in 0..(Len(a) - 1) : RatEq(At(a, j), v)}

\* the pattern cut where the spectrum ends, without the closing -1 entries
puls_series_unpadded(TheoIn, ObsIn, Obs_to_build_from) ==
    LET found == WhereEqual(ObsIn, Obs_to_build_from)
    IN IF found = {} THEN Raise("IndexError")
       ELSE LET nth_obs == FirstOf(found)
                diff == [k \in 1..Len(TheoIn) |-> RatAbsDiff(TheoIn[k], Obs_to_build_from)]
                index == FirstOf(WhereMin(diff))
                upper == index + (Len(ObsIn) - nth_obs)
                begin == IF index - nth_obs < 0
                         THEN Repeat(MinusOne, nth_obs - index) \o Slice(TheoIn, 0, upper)
                         ELSE Slice(TheoIn, index - nth_obs, upper)
            IN [kind |-> "ok", data |-> begin]

\* lines 249-265: the theoretical values counted from the one closest to
\* Obs_to_build_from, -1 where the spectrum ends
puls_series_from_given_puls(TheoIn, ObsIn, Obs_to_build_from) ==
    LET found == WhereEqual(ObsIn, Obs_to_build_from)
    IN IF found = {} THEN Raise("IndexError")
       ELSE LET nth_obs == FirstOf(found)
                diff == [k \in 1..Len(TheoIn) |-> RatAbsDiff(TheoIn[k], Obs_to_build_from)]
                index == FirstOf(WhereMin(diff))
                upper == index + (Len(ObsIn) - nth_obs)
                begin == IF index - nth_obs < 0
                         THEN Repeat(MinusOne, nth_obs - index) \o Slice(TheoIn, 0, upper)
                         ELSE Slice(TheoIn, index - nth_obs, upper)
                end == IF upper > Len(TheoIn) THEN Repeat(MinusOne, upper - Len(TheoIn))
                       ELSE <<>>
            IN [kind |-> "ok", data |-> begin \o end]

\* lines 165-171: the two lists of parts
SplitTable(obs, obserr) ==
    LET found == WhereZero(obs, 1)
        missing_puls == [i \in 1..Len(found) |-> found[i] - (i - 1)]
    IN [Obs_pattern_parts |-> NpSplit(NonZero(obs, 1), missing_puls),
        ObsErr_pattern_parts |-> NpSplit(NonZero(obserr, 1), missing_puls)]

\* number of iterations of zip(a, b, c)
ZipLength(a, b, c) ==
    LET ab == IF Len(a) < Len(b) THEN Len(a) ELSE Len(b)
    IN IF ab < Len(c) THEN ab ELSE Len(c)

\* ObsErr_part/Obs_part**2 , elementwise, or the ValueError of two shapes
\* that do not broadcast
ErrorInPeriods(a, b) ==
    IF Len(a) = Len(b)
    THEN [kind |-> "ok", data |-> [k \in 1..Len(a) |-> RatDivSquare(a[k], b[k])]]
    ELSE IF Len(b) = 1
    THEN [kind |-> "ok", data |-> [k \in 1..Len(a) |-> RatDivSquare(a[k], b[1])]]
    ELSE IF Len(a) = 1
    THEN [kind |-> "ok", data |-> [k \in 1..Len(b) |-> RatDivSquare(a[1], b[k])]]
    ELSE Raise("ValueError")

\* lines 187-211: the observed periods and errors handed to the engine
ObservedInPeriods(observable, Obs_part, ObsErr_part) ==
    IF observable = "frequency"
    THEN LET errs == ErrorInPeriods(ObsErr_part, Obs_part)
         IN IF errs.kind # "ok" THEN errs
            ELSE IF Obs_part = <<>> THEN Raise("ValueError")
            ELSE [kind |-> "ok", ObsPeriod |-> [k \in 1..Len(Obs_part) |-> RatInv(Obs_part[k])],
                  ObsErr_P |-> errs.data, highest_obs_freq |-> PyMax(Obs_part)]
    ELSE IF observable = "period"
    THEN IF Obs_part = <<>> THEN Raise("ValueError")
         ELSE [kind |-> "ok", ObsPeriod |-> Obs_part, ObsErr_P |-> ObsErr_part,
               highest_obs_freq |-> PyMin(Obs_part)]
    ELSE [kind |-> "exit"]

\* 1/final_theoretical_periods: defined for an array, a TypeError for a list
ReciprocalOf(pers) ==
    IF pers.type = "ndarray"
    THEN [kind |-> "ok", data |-> [k \in 1..Len(pers.data) |-> RatInv(FromInt(pers.data[k]))]]
    ELSE Raise("TypeError")

\* lines 217-222
SelectedByChisq(observable, pers, ords, ObsPeriod, ObsErr_P) ==
    LET r == chisq_longest_sequence(pers, ords,
                                    [k \in 1..Len(ObsPeriod) |-> ToInt(ObsPeriod[k])], ObsErr_P)
    IN IF r.kind = "raise" THEN r
       ELSE IF observable = "frequency" THEN ReciprocalOf(r.final_theoretical_periods)
       ELSE [kind |-> "ok",
             data |-> [k \in 1..Len(r.final_theoretical_periods.data) |->
                          FromInt(r.final_theoretical_periods.data[k])]]

\* one iteration of the loop of lines 184-226: the new ouput_pulsations, or
\* the exception or exit that ends the call.  The np.delete calls of lines
\* 191-205 return a new array that is dropped; they leave freqs and periods
\* as they are, and only their reading of orders[1] can end the call.
ProcessPart(observable, method, fr, pers, ords, out, Obs_part, ObsErr_part, anchor) ==
    LET marked == IF Len(out) > 0 THEN Append(out, Zero) ELSE out
        observed == ObservedInPeriods(observable, Obs_part, ObsErr_part)
        Theo_value == IF observable = "frequency" THEN fr
                      ELSE [k \in 1..Len(pers) |-> FromInt(pers[k])]
        given == IF method = "highest_amplitude" THEN anchor
                 ELSE observed.highest_obs_freq
    IN IF observable \in {"frequency", "period"} /\ Len(marked) > 0 /\ ~HasSecondOrder(ords)
       THEN Raise("IndexError")
       ELSE IF observed.kind # "ok" THEN observed
       ELSE IF method = "chisq_longest_sequence"
       THEN LET selected == SelectedByChisq(observable, pers, ords,
                                           observed.ObsPeriod, observed.ObsErr_P)
            IN IF selected.kind # "ok" THEN selected
               ELSE [kind |-> "ok", ouput_pulsations |-> marked \o selected.data]
       ELSE IF method \in {"highest_amplitude", "highest_frequency"}
       THEN LET selected == puls_series_from_given_puls(Theo_value, Obs_part, given)
            IN IF selected.kind # "ok" THEN selected
               ELSE [kind |-> "ok", ouput_pulsations |-> marked \o selected.data]
       ELSE [kind |-> "exit"]

\* the given values kept whatever the method
AnchorsKept(method, parts, anchors) == [kind |-> "ok", highest_amp_puls |-> anchors]

\* lines 173-177: one value to build from for every part, or the exit
AnchorsFor(method, parts, anchors) ==
    IF Len(parts) # Len(anchors)
    THEN IF method = "highest_amplitude" THEN [kind |-> "exit"]
         ELSE [kind |-> "ok", highest_amp_puls |-> Repeat(None, Len(parts))]
    ELSE [kind |-> "ok", highest_amp_puls |-> anchors]

\* ---------------------------------------------------------------- SpecRow
\* the model's frequencies follow its radial orders: periods strictly
\* increasing or strictly decreasing along the columns.  Every n_pg column
\* of the row holds a number, so that lines 161-162 remove nothing.
MonotonePeriods(T) ==
    {p \in [1..T -> Periods] :
        \/ \A k \in 1..(T - 1) : p[k] < p[k + 1]
        \/ \A k \in 1..(T - 1) : p[k] > p[k + 1]}

\* n_pg of g modes: negative, along the columns or against them
RowOrderArrays(T) == {[k \in 1..T |-> -T + (k - 1)], [k \in 1..T |-> -k]}

\* a row of the observation table: an observed mode with its error, or the
\* interruption row 0 0
TableRows(observable) ==
    {[value |-> IF observable = "period" THEN FromInt(n) ELSE RatInv(FromInt(n)), err |-> e] :
        n \in Periods, e \in ErrSet} \cup {[value |-> Zero, err |-> Zero]}

ParameterRows == {<<FromInt(2), Rat(1, 2)>>}

InitRow ==
    /\ \E p \in UNION {MonotonePeriods(T) : T \in 1..MaxT} :
          freqs = [k \in 1..Len(p) |-> RatInv(FromInt(p[k]))]
    /\ orders \in RowOrderArrays(Len(freqs))
    /\ parameters \in ParameterRows
    /\ which_observable \in {"period", "frequency"}
    /\ method_build_series = "chisq_longest_sequence"
    /\ highest_amp_puls = <<>>
    /\ \E table \in UNION {[1..R -> TableRows(which_observable)] : R \in 1..MaxRows} :
          /\ Obs = [k \in 1..Len(table) |-> table[k].value]
          /\ ObsErr = [k \in 1..Len(table) |-> table[k].err]
    /\ tperiods = <<>>
    /\ Obs_pattern_parts = <<>> /\ ObsErr_pattern_parts = <<>>
    /\ ouput_pulsations = <<>> /\ part = 0 /\ list_out = <<>>
    /\ row_pc = "start"
    /\ operiods = <<>> /\ operiods_errors = <<>>
    /\ pc = "none"
    /\ pairs_orders = <<>>
    /\ increase_or_decrease = 0
    /\ sequences = <<>>
    /\ current = <<>>
    /\ ii = 0
    /\ lseq = <<>>
    /\ thr_ind_start = 0
    /\ ordered_theoretical_periods = <<>>
    /\ corresponding_orders = <<>>
    /\ result = NoResult
    /\ BayesNotStarted

\* lines 159-182
RowPrepare ==
    /\ row_pc = "start"
    /\ tperiods' = [k \in 1..Len(freqs) |-> ToInt(RatInv(freqs[k]))]
    /\ LET parts == SplitTable(Obs, ObsErr)
       IN /\ Obs_pattern_parts' = parts.Obs_pattern_parts
          /\ ObsErr_pattern_parts' = parts.ObsErr_pattern_parts
          /\ LET given == AnchorsFor(method_build_series, parts.Obs_pattern_parts,
                                     highest_amp_puls)
             IN IF given.kind = "exit"
                THEN /\ row_pc' = "exit"
                     /\ highest_amp_puls' = highest_amp_puls
                ELSE /\ row_pc' = "loop"
                     /\ highest_amp_puls' = given.highest_amp_puls
    /\ list_out' = parameters
    /\ ouput_pulsations' = <<>>
    /\ part' = 0
    /\ UNCHANGED <<bayes_vars, engine_locals, orders, operiods, operiods_errors, freqs, parameters,
                   Obs, ObsErr, which_observable, method_build_series>>

\* one iteration of lines 184-226
RowPart ==
    /\ row_pc = "loop"
    /\ part < ZipLength(Obs_pattern_parts, ObsErr_pattern_parts, highest_amp_puls)
    /\ LET done == ProcessPart(which_observable, method_build_series, freqs, tperiods, orders,
                               ouput_pulsations,
                               At(Obs_pattern_parts, part), At(ObsErr_pattern_parts, part),
                               At(highest_amp_puls, part))
       IN IF done.kind = "ok"
          THEN /\ ouput_pulsations' = done.ouput_pulsations
               /\ part' = part + 1
               /\ row_pc' = "loop"
               /\ result' = result
          ELSE /\ ouput_pulsations' = ouput_pulsations
               /\ part' = part
               /\ row_pc' = IF done.kind = "raise" THEN "raised" ELSE "exit"
               /\ result' = done
    /\ UNCHANGED <<bayes_vars, inputs, pc, pairs_orders, increase_or_decrease, sequences, current, ii,
                   lseq, thr_ind_start, ordered_theoretical_periods, corresponding_orders,
                   freqs, parameters, Obs, ObsErr, which_observable, method_build_series,
                   highest_amp_puls, Obs_pattern_parts, ObsErr_pattern_parts, list_out>>

\* lines 227-228
RowReturn ==
    /\ row_pc = "loop"
    /\ ~(part < ZipLength(Obs_pattern_parts, ObsErr_pattern_parts, highest_amp_puls))
    /\ list_out' = list_out \o ouput_pulsations
    /\ row_pc' = "returned"
    /\ UNCHANGED <<bayes_vars, engine_locals, inputs, freqs, parameters, Obs, ObsErr, which_observable,
                   method_build_series, highest_amp_puls, Obs_pattern_parts,
                   ObsErr_pattern_parts, ouput_pulsations, part>>

NextRow ==
    \/ RowPrepare
    \/ RowPart
    \/ RowReturn

SpecRow == InitRow /\ [][NextRow]_vars

\* ---------------------------------------------------------- SpecRowMethods
\* the three methods, with values to build from that are too few, as many as
\* the parts, or too many; tables of up to MaxRows rows, and tables of two
\* parts of SegmentRows modes each
SegmentRows == 2

MaxAnchors == 2

Methods == {"chisq_longest_sequence", "highest_amplitude", "highest_frequency"}

ValueOf(observable, n) == IF observable = "period" THEN FromInt(n) ELSE RatInv(FromInt(n))

\* rows with one and the same error
PlainRows(observable) ==
    {[value |-> ValueOf(observable, n), err |-> Rat(1, 1)] : n \in Periods}
        \cup {[value |-> Zero, err |-> Zero]}

GappedTables(observable) ==
    {a \o <<[value |-> Zero, err |-> Zero]>> \o b :
        a, b \in [1..SegmentRows -> PlainRows(observable) \ {[value |-> Zero, err |-> Zero]}]}

\* the locals of a call that has not started
RowNotStarted ==
    /\ tperiods = <<>>
    /\ Obs_pattern_parts = <<>> /\ ObsErr_pattern_parts = <<>>
    /\ ouput_pulsations = <<>> /\ part = 0 /\ list_out = <<>>
    /\ row_pc = "start"
    /\ operiods = <<>> /\ operiods_errors = <<>>
    /\ pc = "none"
    /\ pairs_orders = <<>>
    /\ increase_or_decrease = 0
    /\ sequences = <<>>
    /\ current = <<>>
    /\ ii = 0
    /\ lseq = <<>>
    /\ thr_ind_start = 0
    /\ ordered_theoretical_periods = <<>>
    /\ corresponding_orders = <<>>
    /\ result = NoResult
    /\ BayesNotStarted

InitRowMethods ==
    /\ \E p \in UNION {MonotonePeriods(T) : T \in 1..MaxT} :
          freqs = [k \in 1..Len(p) |-> RatInv(FromInt(p[k]))]
    /\ orders \in RowOrderArrays(Len(freqs))
    /\ parameters \in ParameterRows
    /\ which_observable \in {"period", "frequency"}
    /\ method_build_series \in Methods
    /\ highest_amp_puls \in {Repeat(ValueOf(which_observable, 1), n) : n \in 0..MaxAnchors}
    /\ \E table \in UNION {[1..R -> PlainRows(which_observable)] : R \in 1..MaxRows}
                      \cup GappedTables(which_observable) :
          /\ Obs = [k \in 1..Len(table) |-> table[k].value]
          /\ ObsErr = [k \in 1..Len(table) |-> table[k].err]
    /\ RowNotStarted

SpecRowMethods == InitRowMethods /\ [][NextRow]_vars

\* ----------------------------------------------------------- SpecRowErrors
\* tables whose error column holds any error, 0 included, in any row
ErrorRows(observable) ==
    {[value |-> v, err |-> e] :
        v \in {ValueOf(observable, n) : n \in Periods} \cup {Zero},
        e \in ErrSet \cup {Zero}}

InitRowErrors ==
    /\ \E p \in UNION {MonotonePeriods(T) : T \in 1..MaxT} :
          freqs = [k \in 1..Len(p) |-> RatInv(FromInt(p[k]))]
    /\ orders \in RowOrderArrays(Len(freqs))
    /\ parameters \in ParameterRows
    /\ which_observable \in {"period", "frequency"}
    /\ method_build_series = "chisq_longest_sequence"
    /\ highest_amp_puls = <<>>
    /\ \E table \in UNION {[1..R -> ErrorRows(which_observable)] : R \in 1..MaxRows} :
          /\ Obs = [k \in 1..Len(table) |-> table[k].value]
          /\ ObsErr = [k \in 1..Len(table) |-> table[k].err]
    /\ RowNotStarted

SpecRowErrors == InitRowErrors /\ [][NextRow]_vars

\* ================================================ pipe5_best_model_errors
\* One file of merit values (src/foam/pipeline/pipe5_best_model_errors.py,
\* lines 43-104).  A row of the table is a model: its meritValue and the
\* value of its free parameter (one free parameter).  Merit values are whole
\* numbers of the unit over which the likelihood halves, so that the
\* likelihood of a difference x is exactly 1/2^x; the constant factor of
\* likelihood_md is the same in prob and in total_probability.
RECURSIVE Gcd(_, _)
Gcd(a, b) == IF b = 0 THEN a ELSE Gcd(b, a % b)

RatReduce(r) == LET g == Gcd(r.num, r.den) IN Rat(r.num \div g, r.den \div g)

RatMul(a, b) == RatReduce(Rat(a.num * b.num, a.den * b.den))

RatDiv(a, b) == RatReduce(Rat(a.num * b.den, a.den * b.num))

RatPlus(a, b) == RatReduce(RatAdd(a, b))

\* line 15
sigma == 2

\* line 16
percentile == <<Rat(68, 100), Rat(95, 100), Rat(997, 1000)>>

\* every model as likely as the best one
likelihood_flat(x) == Rat(1, 1)

\* np.exp(-0.5 * chi2 / (n_dict[obs] - config.k)) , np.exp(-0.5 * (md + ...))
likelihood_function(x) == Rat(1, 2 ^ x)

ParameterValues == {1, 2}

ModelRows == [meritValue : 0..MaxMerit, parameter : ParameterValues]

\* df.sort_values("meritValue", ascending=True): the rows in ascending merit
\* value, rows of equal merit value in any order
SortValues(table) ==
    {sorted \in {[k \in 1..Len(table) |-> table[order[k]]] :
                    order \in {f \in [1..Len(table) -> 1..Len(table)] :
                                 \A a, b \in 1..Len(table) : a # b => f[a] # f[b]}} :
        \A k \in 1..(Len(sorted) - 1) : sorted[k].meritValue <= sorted[k + 1].meritValue}

\* lines 66-77: the share of the models that have the value
Probabilities(frame) ==
    [value \in {frame[k].parameter : k \in 1..Len(frame)} |->
        Rat(Cardinality({k \in 1..Len(frame) : frame[k].parameter = value}), Len(frame))]

\* lines 81-87 and 91-95: prob of the model at position k (from 0)
Prob(frame, probs, k) ==
    RatMul(likelihood_function(At(frame, k).meritValue - At(frame, 0).meritValue),
           probs[At(frame, k).parameter])

\* lines 79-88
RECURSIVE TotalProbability(_, _, _)
TotalProbability(frame, probs, k) ==
    IF k >= Len(frame) THEN Rat(0, 1)
    ELSE RatPlus(Prob(frame, probs, k), TotalProbability(frame, probs, k + 1))

\* what an output file left by an earlier run may hold
ExistingOutputs == {<<>>} \cup {<<row>> : row \in {r \in ModelRows : r.meritValue = 0}}

\* the test of line 51 never true
never_is_file == FALSE

\* output_name.is_file()
is_file == output_is_file

\* the stage is started with the output file there or not
InitBayes ==
    /\ merit_table \in UNION {[1..N -> ModelRows] : N \in 1..MaxModels}
    /\ output_is_file \in BOOLEAN
    /\ output_table \in IF output_is_file THEN ExistingOutputs ELSE {<<>>}
    /\ df = <<>>
    /\ probabilities = <<>> /\ total_probability = Rat(0, 1) /\ p_cumulative = Rat(0, 1)
    /\ i_df = 0 /\ bayes_pc = "file" /\ runs = 0
    /\ tperiods = <<>> /\ orders = <<>> /\ operiods = <<>> /\ operiods_errors = <<>>
    /\ pc = "none"
    /\ pairs_orders = <<>>
    /\ increase_or_decrease = 0
    /\ sequences = <<>>
    /\ current = <<>>
    /\ ii = 0
    /\ lseq = <<>>
    /\ thr_ind_start = 0
    /\ ordered_theoretical_periods = <<>>
    /\ corresponding_orders = <<>>
    /\ result = NoResult
    /\ freqs = <<>> /\ parameters = <<>> /\ Obs = <<>> /\ ObsErr = <<>>
    /\ which_observable = "period"
    /\ method_build_series = "chisq_longest_sequence"
    /\ highest_amp_puls = <<>>
    /\ Obs_pattern_parts = <<>> /\ ObsErr_pattern_parts = <<>>
    /\ ouput_pulsations = <<>> /\ part = 0 /\ row_pc = "none" /\ list_out = <<>>

\* lines 51-53: the output is there already
SkipFile ==
    /\ bayes_pc = "file"
    /\ is_file
    /\ bayes_pc' = "skipped"
    /\ UNCHANGED <<engine_locals, inputs, row_vars, merit_table, output_is_file, df,
                   probabilities, total_probability, p_cumulative, i_df, output_table, runs>>

\* lines 55-57
ReadSorted ==
    /\ bayes_pc = "file"
    /\ ~is_file
    /\ df' \in SortValues(merit_table)
    /\ bayes_pc' = "priors"
    /\ UNCHANGED <<engine_locals, inputs, row_vars, merit_table, output_is_file,
                   probabilities, total_probability, p_cumulative, i_df, output_table, runs>>

\* lines 66-89
Priors ==
    /\ bayes_pc = "priors"
    /\ probabilities' = Probabilities(df)
    /\ total_probability' = TotalProbability(df, probabilities', 0)
    /\ p_cumulative' = Rat(0, 1)
    /\ i_df' = 0
    /\ bayes_pc' = "loop"
    /\ UNCHANGED <<engine_locals, inputs, row_vars, merit_table, output_is_file, df,
                   output_table, runs>>

\* one iteration of lines 90-104; to_hdf with mode="w" makes the file, or
\* replaces the one that is there
Cumulate ==
    /\ bayes_pc = "loop"
    /\ i_df < Len(df)
    /\ p_cumulative' = RatPlus(p_cumulative,
                               RatDiv(Prob(df, probabilities, i_df), total_probability))
    /\ IF ~RatLess(p_cumulative', percentile[sigma])
       THEN /\ output_table' = Slice(df, 0, i_df + 1)
            /\ output_is_file' = TRUE
            /\ bayes_pc' = "written"
            /\ i_df' = i_df
       ELSE /\ output_table' = output_table
            /\ output_is_file' = output_is_file
            /\ bayes_pc' = "loop"
            /\ i_df' = i_df + 1
    /\ UNCHANGED <<engine_locals, inputs, row_vars, merit_table, df,
                   probabilities, total_probability, runs>>

\* the stage is run once more on the same files: a new process, whose
\* names are not bound yet, and the files as the run before left them
RunAgain ==
    /\ bayes_pc \in {"skipped", "written"}
    /\ runs + 1 < MaxRuns
    /\ runs' = runs + 1
    /\ bayes_pc' = "file"
    /\ df' = <<>>
    /\ probabilities' = <<>> /\ total_probability' = Rat(0, 1) /\ p_cumulative' = Rat(0, 1)
    /\ i_df' = 0
    /\ UNCHANGED <<engine_locals, inputs, row_vars, merit_table, output_is_file,
                   output_table>>

NextBayes ==
    \/ SkipFile
    \/ ReadSorted
    \/ Priors
    \/ Cumulate
    \/ RunAgain

SpecBayes == InitBayes /\ [][NextBayes]_vars

\* ================================================================ claims
\* len(tperiods), len(operiods)
NT == Len(tperiods)

NO == Len(operiods)

Returned == pc = "returned" /\ result.kind = "return"

\* the segmentation loop has run to its end
SegmentationDone ==
    \/ pc = "segment" /\ ~(ii < LoopLength(pairs_orders))
    \/ pc \in {"align", "series"}
    \/ Terminated /\ ~(NT < NO) /\ HasSecondOrder(orders)

\* positions r (from 1) of sequences whose run has the pair k as a member
RunsHolding(k) == {r \in 1..Len(sequences) : \E m \in 1..Len(sequences[r]) : sequences[r][m] = k}

\* C1: for every T >= 1 and O >= 1 the call ends by returning a period list
\* and an order list of exactly O entries each.
C1_OutputLengthAlways ==
    Terminated => /\ result.kind = "return"
                  /\ Len(result.final_theoretical_periods.data) = NO
                  /\ Len(result.corresponding_orders.data) = NO

\* C2: when T >= O the runs of the segmentation loop partition the O pairs:
\* every pair, the final one included, is in exactly one run and once in it,
\* and the final pair is the last member of the last run.  Stated for the
\* segments of two or more periods (that of one period is the case of C3).
C2_RunsPartitionPairs ==
    (SegmentationDone /\ ~(NT < NO) /\ NO >= 2) =>
        /\ \A k \in 0..(NO - 1) :
              /\ Cardinality(RunsHolding(k)) = 1
              /\ \A r \in RunsHolding(k) :
                    Cardinality({m \in 1..Len(sequences[r]) : sequences[r][m] = k}) = 1
        /\ sequences # <<>>
        /\ sequences[Len(sequences)] # <<>>
        /\ sequences[Len(sequences)][Len(sequences[Len(sequences)])] = NO - 1

\* C3: an observed segment of one period gives one run of length 1, which is
\* selected, and a one-entry aligned pattern is returned.
C3_SingleObservedPeriod ==
    (NO = 1 /\ Terminated) =>
        /\ result.kind = "return"
        /\ sequences = << <<0>> >>
        /\ lseq = <<0>>
        /\ Len(result.final_theoretical_periods.data) = 1

\* C4: each observed period p_i is paired with the lowest theoretical index
\* j* that minimises ((p_i - t_j)/s_i)^2 over all j, and the pair records
\* that index's period, radial order and chi-square.
C4_MatcherLowestMinimiser ==
    pairs_orders # <<>> =>
        /\ Len(pairs_orders) = NO
        /\ \A i \in 1..NO :
              \E js \in 1..NT :
                 /\ \A k \in 1..NT :
                       ~RatLess(ChiSq(operiods[i], tperiods[k], operiods_errors[i]),
                                ChiSq(operiods[i], tperiods[js], operiods_errors[i]))
                 /\ \A k \in 1..(js - 1) :
                       RatLess(ChiSq(operiods[i], tperiods[js], operiods_errors[i]),
                               ChiSq(operiods[i], tperiods[k], operiods_errors[i]))
                 /\ pairs_orders[i].oper = operiods[i]
                 /\ pairs_orders[i].tper = tperiods[js]
                 /\ pairs_orders[i].order = orders[js]
                 /\ RatEq(pairs_orders[i].chisq,
                          ChiSq(operiods[i], tperiods[js], operiods_errors[i]))

\* an observed period lies at equal distance from two different theoretical
\* periods and the matcher has acted
C4_Witness ==
    /\ pairs_orders # <<>>
    /\ \E i \in 1..NO : \E j, k \in 1..NT :
          /\ j < k
          /\ tperiods[j] # tperiods[k]
          /\ Abs(operiods[i] - tperiods[j]) = Abs(operiods[i] - tperiods[k])
          /\ pairs_orders[i].tper = tperiods[j]
          /\ \A m \in 1..NT : Abs(operiods[i] - tperiods[m]) >= Abs(operiods[i] - tperiods[j])

\* sum of the chi-squares of the rows of a run, divided by its length
RunScore(run) ==
    LET total == RatSum([r \in 1..Len(run) |-> pairs_orders[run[r] + 1].chisq], 1)
    IN Rat(total.num, total.den * Len(run))

Selected == pc \in {"align", "series"} \/ (Returned /\ ~(NT < NO))

\* C5: the selected run has maximum length; among the runs of maximum length
\* it has the smallest score, and among those of smallest score it is the
\* earliest.
C5_SelectorLongestThenBestThenFirst ==
    Selected =>
        \E k \in 1..Len(sequences) :
           /\ lseq = sequences[k]
           /\ \A m \in 1..Len(sequences) : Len(sequences[m]) <= Len(sequences[k])
           /\ \A m \in 1..Len(sequences) :
                 Len(sequences[m]) = Len(sequences[k]) =>
                    /\ ~RatLess(RunScore(sequences[m]), RunScore(sequences[k]))
                    /\ m < k => RatLess(RunScore(sequences[k]), RunScore(sequences[m]))

\* several runs share the maximum length and the one selected is not the
\* first of them: it won on its score
C5_Witness ==
    /\ Selected
    /\ Len(Longest(sequences)) >= 2
    /\ lseq # sequences[Longest(sequences)[1] + 1]
    /\ \E m \in 1..Len(sequences) :
          Len(sequences[m]) = Len(lseq) /\ RatLess(RunScore(lseq), RunScore(sequences[m]))

\* C6: the step is fixed from the first two theoretical orders, adjacent
\* pairs i and i+1 are in the same run iff |order_i| = |order_{i+1}| + step,
\* and where the test fails pair i ends its run and pair i+1 starts the next.
C6_RunBoundaries ==
    (SegmentationDone /\ NO >= 2) =>
        /\ increase_or_decrease = (IF orders[2] = orders[1] - 1 THEN -1 ELSE 1)
        /\ \A i \in 0..(NO - 2) :
              LET test == Abs(pairs_orders[i + 1].order)
                             = Abs(pairs_orders[i + 2].order) + increase_or_decrease
              IN /\ test <=> (RunsHolding(i) \cap RunsHolding(i + 1) # {})
                 /\ ~test => \E r \in 1..(Len(sequences) - 1) :
                                /\ sequences[r][Len(sequences[r])] = i
                                /\ sequences[r + 1][1] = i + 1

IsSentinel(i) == ordered_theoretical_periods[i] = -1 /\ corresponding_orders[i] = -1

Aligned == pc = "series" \/ (Returned /\ ~(NT < NO))

\* C7: with offset = (first index of the selected run's first matched period
\* in the theoretical spectrum) - (first index of the selected run's first
\* observed period in the observed segment), position i of the output is
\* (tperiods[offset+i], orders[offset+i]) when 0 <= offset+i < T and (-1,-1)
\* otherwise.
C7_AlignedByOffset ==
    Aligned =>
        \E a \in 0..(NT - 1), b \in 0..(NO - 1) :
           /\ tperiods[a + 1] = pairs_orders[lseq[1] + 1].tper
           /\ \A j \in 0..(a - 1) : tperiods[j + 1] # tperiods[a + 1]
           /\ operiods[b + 1] = pairs_orders[lseq[1] + 1].oper
           /\ \A j \in 0..(b - 1) : operiods[j + 1] # operiods[b + 1]
           /\ Len(ordered_theoretical_periods) = NO
           /\ Len(corresponding_orders) = NO
           /\ \A i \in 0..(NO - 1) :
                 IF 0 <= a - b + i /\ a - b + i < NT
                 THEN /\ ordered_theoretical_periods[i + 1] = tperiods[a - b + i + 1]
                      /\ corresponding_orders[i + 1] = orders[a - b + i + 1]
                 ELSE IsSentinel(i + 1)

\* the aligned pattern has a leading sentinel and a theoretical value
C7_Witness ==
    /\ Aligned
    /\ thr_ind_start < 0
    /\ IsSentinel(1)
    /\ \E i \in 1..NO : /\ thr_ind_start + i \in 1..NT
                         /\ ordered_theoretical_periods[i] = tperiods[thr_ind_start + i]
                         /\ corresponding_orders[i] = orders[thr_ind_start + i]

\* C8: in the returned pattern no sentinel stands between two non-sentinel
\* entries; when offset + O > T exactly the last offset+O-T entries are
\* sentinels and all entries before them are theoretical values.
C8_SentinelsOnlyAtEnds ==
    Returned =>
        LET pers == result.final_theoretical_periods.data
            ords == result.corresponding_orders.data
            sent(i) == pers[i] = -1 /\ ords[i] = -1
        IN /\ \A i, j, k \in 1..Len(pers) : (i < j /\ j < k) => ~(~sent(i) /\ sent(j) /\ ~sent(k))
           /\ (~(NT < NO) /\ thr_ind_start + NO > NT) =>
                 \A i \in 1..NO :
                    IF i > NO - (thr_ind_start + NO - NT)
                    THEN sent(i)
                    ELSE pers[i] = tperiods[thr_ind_start + i] /\ ords[i] = orders[thr_ind_start + i]

\* the anchor maps past the end of the spectrum: valid entries, then sentinels
C8_Witness ==
    /\ Returned
    /\ ~(NT < NO)
    /\ thr_ind_start + NO > NT
    /\ result.final_theoretical_periods.data[1] # -1
    /\ result.final_theoretical_periods.data[NO] = -1

\* C9: with T < O nothing is matched or segmented and the call returns the
\* penalty 1e16 with O periods -1 and O orders -1.
C9_InsufficientTheoryPenalty ==
    NT < NO =>
        /\ pc \in {"entry", "returned"}
        /\ pairs_orders = <<>> /\ sequences = <<>> /\ lseq = <<>>
        /\ pc = "returned" =>
              /\ result.kind = "return"
              /\ result.series_chi2 = [mant |-> 1, exp10 |-> 16]
              /\ result.final_theoretical_periods.data = [i \in 1..NO |-> -1]
              /\ result.corresponding_orders.data = [i \in 1..NO |-> -1]

C9_Witness == NT < NO /\ pc = "returned" /\ NT >= 2

\* the segment the loop of theoretical_pattern_from_dfrow is at
CurrentPart == Obs_pattern_parts[part + 1]

\* position in ouput_pulsations (from 1) of the first entry of segment k
RECURSIVE PartStart(_)
PartStart(k) == IF k = 1 THEN 1 ELSE PartStart(k - 1) + Len(Obs_pattern_parts[k - 1]) + 1

\* C10: under the method chisq_longest_sequence a segment with T < O never
\* ends the call, for 'period' and 'frequency' alike: the call does not stop
\* at such a segment, and the returned row holds -1 at all its positions.
C10_InsufficientCoverageNeverAborts ==
    /\ (row_pc = "raised" /\ part < Len(Obs_pattern_parts)) =>
          ~(Len(tperiods) < Len(CurrentPart))
    /\ row_pc = "returned" =>
          \A k \in 1..Len(Obs_pattern_parts) :
             Len(tperiods) < Len(Obs_pattern_parts[k]) =>
                \A i \in 0..(Len(Obs_pattern_parts[k]) - 1) :
                   list_out[Len(parameters) + PartStart(k) + i] = MinusOne

\* ------------------------------------------------------------------- C11
IsScenarioA ==
    /\ tperiods = ScenarioTheory
    /\ orders = ScenarioOrders
    /\ operiods = ScenarioObserved
    /\ operiods_errors = ScenarioErrors

\* theoretical positions (from 0) of the matched periods
MatchedIndices == [i \in 1..Len(pairs_orders) |-> FirstIndexOf(tperiods, pairs_orders[i].tper)]

C14_SpacingsSentinelFree ==
    Aligned => \A k \in 1..(Len(ordered_theoretical_periods) - 1) :
                   ~IsSentinel(k) /\ ~IsSentinel(k + 1)

\* ------------------------------------------------------------------- C15
\* |p_k - p_{k+1}| * 86400 for the N-1 adjacent couples of a sequence
IsSpacingSeriesOf(series, pers) ==
    /\ Len(series) = Len(pers) - 1
    /\ \A k \in 1..(Len(pers) - 1) : series[k] = Abs(pers[k] - pers[k + 1]) * 86400

\* C15: for a sequence of N periods generate_obs_series and
\* generate_thry_series return the N-1 spacings |p_k - p_{k+1}| * 86400
\* (generate_obs_series N-1 errors too); the two series compared in
\* series_chi2 have the length O-1 and the sum is divided by O-1.
C15_SpacingSeries ==
    LET obs == generate_obs_series(operiods, operiods_errors)
    IN /\ IsSpacingSeriesOf(obs.spacings, operiods)
       /\ Len(obs.errors) = NO - 1
       /\ IsSpacingSeriesOf(generate_thry_series(tperiods), tperiods)
       /\ Aligned =>
            LET thr == generate_thry_series(ordered_theoretical_periods)
                terms == [k \in 1..(NO - 1) |->
                            Rat((Abs(operiods[k] - operiods[k + 1])
                                   - Abs(ordered_theoretical_periods[k]
                                           - ordered_theoretical_periods[k + 1])) ^ 2
                                  * obs.errors[k].den, obs.errors[k].num)]
                total == RatSum(terms, 1)
            IN /\ IsSpacingSeriesOf(thr, ordered_theoretical_periods)
               /\ Len(thr) = NO - 1 /\ Len(obs.spacings) = Len(thr)
               /\ Returned => RatEq(result.series_chi2, Rat(total.num, total.den * (NO - 1)))

C15_Witness ==
    /\ Returned /\ ~(NT < NO) /\ NO = MaxO
    /\ ~RatEq(result.series_chi2, Zero)

\* ------------------------------------------------------------------- C19
Distinct(a) == \A i, j \in 1..Len(a) : i # j => a[i] # a[j]

AllNegative(ords) == \A k \in 1..Len(ords) : ords[k] < 0

\* observed positions (from 0) of the selected run: those of its rows, and
\* the final position when the test of line 487 joined it to a row of the run
SelectedPositions ==
    {lseq[r] : r \in 1..Len(lseq)}
        \cup {i + 1 : i \in {j \in {lseq[r] : r \in 1..Len(lseq)} :
                               /\ j = NO - 2
                               /\ Consecutive(pairs_orders, j, increase_or_decrease)}}

\* C19: with negative orders of constant step and pairwise distinct
\* theoretical and observed periods, the aligned entry at every observed
\* position of the selected run is the matcher's best match of that position.
C19_RunPositionsKeepTheirMatch ==
    (Aligned /\ AllNegative(orders) /\ Distinct(tperiods) /\ Distinct(operiods)) =>
        \A i \in SelectedPositions :
            /\ ordered_theoretical_periods[i + 1] = Row(pairs_orders, i).tper
            /\ corresponding_orders[i + 1] = Row(pairs_orders, i).order

C19_Witness ==
    /\ Returned /\ ~(NT < NO)
    /\ AllNegative(orders) /\ Distinct(tperiods) /\ Distinct(operiods)
    /\ Cardinality(SelectedPositions) >= 2
    /\ \E i \in 1..NO : IsSentinel(i) = FALSE /\ ordered_theoretical_periods[i] # operiods[i]

\* ------------------------------------------------------------------- C20
\* observed position (from 1) of the anchor: obs_ordering_ind of line 510
AnchorPosition == FirstIndexOf(operiods, Row(pairs_orders, lseq[1]).oper) + 1

\* C20: when T >= O and the pattern is built, its entry at the observed
\* anchor position is the anchor's theoretical period and order, not a
\* placeholder; so some entry is real, and the first and the last entry are
\* never both placeholders.
C20_AnchorIsReal ==
    Aligned =>
        /\ ~IsSentinel(AnchorPosition)
        /\ ordered_theoretical_periods[AnchorPosition] = Row(pairs_orders, lseq[1]).tper
        /\ \E i \in 1..NO : ~IsSentinel(i)
        /\ ~(IsSentinel(1) /\ IsSentinel(NO))

C20_Witness == Returned /\ ~(NT < NO) /\ IsSentinel(1) /\ AnchorPosition = 2

\* ------------------------------------------------------------------- C12
\* the returned row without the model parameters
PulsationPart == SubSeq(list_out, Len(parameters) + 1, Len(list_out))

\* the values the method selects for segment k taken alone
SelectedAlone(k) ==
    ProcessPart(which_observable, method_build_series, freqs, tperiods, orders, <<>>,
                Obs_pattern_parts[k], ObsErr_pattern_parts[k], highest_amp_puls[k])

\* C12: the returned row is the model parameters followed by the values of
\* the segments in input order; it has one entry per row of the observation
\* table, a 0 exactly at the interruption rows, and between two interruptions
\* the values selected for the segment that stands there.
C12_RowLayout ==
    row_pc = "returned" =>
        /\ SubSeq(list_out, 1, Len(parameters)) = parameters
        /\ Len(PulsationPart) = Len(Obs)
        /\ \A i \in 1..Len(Obs) : RatEq(PulsationPart[i], Zero) <=> RatEq(Obs[i], Zero)
        /\ part = Len(Obs_pattern_parts)
        /\ \A k \in 1..Len(Obs_pattern_parts) :
              /\ SelectedAlone(k).kind = "ok"
              /\ SubSeq(PulsationPart, PartStart(k),
                        PartStart(k) + Len(Obs_pattern_parts[k]) - 1)
                    = SelectedAlone(k).ouput_pulsations

C12_Witness ==
    /\ row_pc = "returned"
    /\ method_build_series = "chisq_longest_sequence"
    /\ Len(Obs_pattern_parts) = 2
    /\ \E i \in 1..Len(PulsationPart) : PulsationPart[i] = MinusOne

\* ------------------------------------------------------------------- C13
\* C13: the call exits on the number of values to build from only under
\* 'highest_amplitude', and there always when the number differs from the
\* number of segments; under the two other methods the loop runs over every
\* segment and the returned row covers every row of the table.
C13_AnchorCountMismatch ==
    /\ row_pc = "exit" =>
          /\ method_build_series = "highest_amplitude"
          /\ Len(Obs_pattern_parts) # Len(highest_amp_puls)
    /\ (method_build_series = "highest_amplitude" /\ row_pc \notin {"start", "exit"}) =>
          Len(Obs_pattern_parts) = Len(highest_amp_puls)
    /\ (method_build_series # "highest_amplitude" /\ row_pc # "start") =>
          /\ row_pc # "exit"
          /\ ZipLength(Obs_pattern_parts, ObsErr_pattern_parts, highest_amp_puls)
                = Len(Obs_pattern_parts)
          /\ row_pc = "returned" => /\ part = Len(Obs_pattern_parts)
                                    /\ Len(PulsationPart) = Len(Obs)

C13_Witness ==
    /\ row_pc = "returned"
    /\ method_build_series = "highest_frequency"
    /\ Len(Obs_pattern_parts) = 2
    /\ highest_amp_puls = <<None, None>>

\* ------------------------------------------------------------------- C17
\* an entry of the returned row that is a theoretical value
IsMode(i) == ~RatEq(PulsationPart[i], Zero) /\ ~RatEq(PulsationPart[i], MinusOne)

\* C17: no theoretical mode stands in two different segments of the returned
\* row (the theoretical values of one model are pairwise distinct).
C17_NoModeInTwoSegments ==
    row_pc = "returned" =>
        \A i, j \in 1..Len(PulsationPart) :
            (/\ i < j /\ IsMode(i) /\ IsMode(j)
             /\ \E z \in (i + 1)..(j - 1) : RatEq(PulsationPart[z], Zero))
                => ~RatEq(PulsationPart[i], PulsationPart[j])

\* ------------------------------------------------------------------- C18
\* C18: after the split every error segment is as long as its observed
\* segment and holds the errors of the same table rows.
C18_ErrorsFollowTheirPeriods ==
    row_pc # "start" =>
        \A k \in 1..Len(Obs_pattern_parts) :
            /\ Len(ObsErr_pattern_parts[k]) = Len(Obs_pattern_parts[k])
            /\ \A j \in 1..Len(Obs_pattern_parts[k]) :
                  ObsErr_pattern_parts[k][j] = ObsErr[PartStart(k) + j - 1]

\* ------------------------------------------------------------------- C16
\* likelihood times prior of the model at position k (from 1) of df, as a
\* whole number of 1/(2^MaxMerit * len(df))
Weight(k) ==
    2 ^ (MaxMerit - (df[k].meritValue - df[1].meritValue))
        * Cardinality({j \in 1..Len(df) : df[j].parameter = df[k].parameter})

RECURSIVE WeightSum(_)
WeightSum(n) == IF n = 0 THEN 0 ELSE Weight(n) + WeightSum(n - 1)

\* the cumulative normalised probability of the first n models is >= 0.95
Reaches95(n) == 100 * WeightSum(n) >= 95 * WeightSum(Len(df))

\* C16: the table written is the shortest leading part of the models in
\* ascending merit value whose cumulative normalised probability is at least
\* 0.95: it holds the best model, none of its models has a larger merit
\* value than a model left out, and nothing is written before that or when
\* the file is skipped.
C16_CredibleRegion ==
    /\ bayes_pc \in {"priors", "loop", "written"} =>
          /\ Len(df) = Len(merit_table)
          /\ \A row \in ModelRows :
                Cardinality({k \in 1..Len(df) : df[k] = row})
                    = Cardinality({k \in 1..Len(merit_table) : merit_table[k] = row})
          /\ \A k \in 1..(Len(df) - 1) : df[k].meritValue <= df[k + 1].meritValue
    /\ bayes_pc \in {"priors", "loop"} => output_table = <<>>
    /\ (bayes_pc \in {"file", "skipped"} /\ runs = 0) => output_table \in ExistingOutputs
    /\ bayes_pc = "loop" => i_df < Len(df) /\ ~Reaches95(i_df)
    /\ bayes_pc = "written" =>
          /\ Len(output_table) \in 1..Len(df)
          /\ output_table = SubSeq(df, 1, Len(output_table))
          /\ \A k \in 1..Len(merit_table) :
                output_table[1].meritValue <= merit_table[k].meritValue
          /\ \A a \in 1..Len(output_table) : \A b \in (Len(output_table) + 1)..Len(df) :
                output_table[a].meritValue <= df[b].meritValue
          /\ Reaches95(Len(output_table))
          /\ \A n \in 0..(Len(output_table) - 1) : ~Reaches95(n)

C16_Witness ==
    /\ bayes_pc = "written"
    /\ Len(output_table) >= 2
    /\ Len(output_table) < Len(df)

\* ------------------------------------------------------------------- C21
\* Theo_value of lines 194 and 206
TheoValue ==
    IF which_observable = "frequency" THEN freqs
    ELSE [k \in 1..Len(tperiods) |-> FromInt(tperiods[k])]

\* first position (from 0) of the value v in the sequence a
PositionOf(a, v) ==
    (CHOOSE j \in 1..Len(a) : RatEq(a[j], v) /\ \A k \in 1..(j - 1) : ~RatEq(a[k], v)) - 1

\* x is nearer to v than y is: (x - v)^2 < (y - v)^2
Nearer(x, y, v) ==
    ((x.num * v.den - v.num * x.den) * y.den) ^ 2 < ((y.num * v.den - v.num * y.den) * x.den) ^ 2

\* first position (from 0) of a value of a closest to v
ClosestTo(a, v) ==
    (CHOOSE j \in 1..Len(a) :
        /\ \A k \in 1..Len(a) : ~Nearer(a[k], a[j], v)
        /\ \A k \in 1..(j - 1) : Nearer(a[j], a[k], v)) - 1

\* the O entries the claim describes, for the start value v
SeriesAsDescribed(TheoIn, ObsIn, v) ==
    [n \in 1..Len(ObsIn) |->
        LET t == ClosestTo(TheoIn, v) - PositionOf(ObsIn, v) + (n - 1)
        IN IF t \in 0..(Len(TheoIn) - 1) THEN At(TheoIn, t) ELSE MinusOne]

\* the value to build segment k from, under the two methods that use one
GivenFor(k) ==
    IF method_build_series = "highest_amplitude" THEN highest_amp_puls[k]
    ELSE IF which_observable = "frequency" THEN PyMax(Obs_pattern_parts[k])
    ELSE PyMin(Obs_pattern_parts[k])

\* C21: for a start value that is an element of the observed array,
\* puls_series_from_given_puls returns O entries, entry n being
\* TheoIn[index - nth_obs + n] when that position exists and -1 otherwise;
\* the rows returned under the two methods that call it hold these entries.
C21_SeriesFromGivenPuls ==
    /\ row_pc # "start" =>
          \A k \in 1..Len(Obs_pattern_parts) : \A j \in 1..Len(Obs_pattern_parts[k]) :
             LET ObsIn == Obs_pattern_parts[k]
                 series == puls_series_from_given_puls(TheoValue, ObsIn, ObsIn[j])
             IN /\ series.kind = "ok"
                /\ Len(series.data) = Len(ObsIn)
                /\ series.data = SeriesAsDescribed(TheoValue, ObsIn, ObsIn[j])
    /\ (row_pc = "returned" /\ method_build_series \in {"highest_amplitude", "highest_frequency"}) =>
          \A k \in 1..Len(Obs_pattern_parts) :
             SubSeq(PulsationPart, PartStart(k), PartStart(k) + Len(Obs_pattern_parts[k]) - 1)
                = SeriesAsDescribed(TheoValue, Obs_pattern_parts[k], GivenFor(k))

C21_Witness ==
    /\ row_pc = "returned"
    /\ method_build_series = "highest_amplitude"
    /\ PulsationPart[1] = MinusOne
    /\ \E i \in 1..Len(PulsationPart) : IsMode(i)
    /\ PulsationPart[Len(PulsationPart)] = MinusOne

\* ------------------------------------------------------------------- C22
\* C22: an output file that exists is never written: the table whose output
\* is there is skipped and the file keeps its content; from the second run of
\* the stage on, no output file changes.
C22_NeverOverwrites ==
    [][/\ output_is_file => (output_table' = output_table /\ output_is_file')
       /\ (output_is_file /\ bayes_pc = "file") => bayes_pc' = "skipped"
       /\ runs >= 1 => (output_table' = output_table /\ output_is_file' = output_is_file)]_vars

\* the second run has skipped the table the first run wrote the output of
C22_Witness ==
    /\ runs = 1
    /\ bayes_pc = "skipped"
    /\ Len(output_table) >= 2

====
